---- MODULE Spec2Model ----
(***************************************************************************)
(* Asynchronous command execution of the halo shell: CommandManager        *)
(* (src/src/command.rs), its caller App (src/src/app.rs) and the log kept   *)
(* in State (src/src/state.rs).                                            *)
(*                                                                         *)
(* Every spawn_command call gets a command number 1, 2, ...  Per command   *)
(* the model keeps the OS process (child), the two pipes, the two drainer  *)
(* tasks, the supervisor task and the receiving half of its one-shot       *)
(* cancellation channel.  The manager keeps the single kill_sender slot.   *)
(* The update channel is the sequence of everything ever sent (sent) and   *)
(* the number of updates the receiver has taken out of it (received).      *)
(***************************************************************************)
EXTENDS Integers, Sequences, FiniteSets, TLC

\* ---------------------------------------------------------------- bounds
MaxCmds == 2        \* spawn_command calls
MaxLines == 1       \* lines the processes write, over all streams
MaxKills == 2       \* kill_running_command calls
MaxChunks == 2      \* chunks a printing process writes to one stream
MaxEvents == 6      \* key and mouse events handled
MaxSuggestions == 4 \* executables of PATH that match what was typed

\* ------------------------------------------------------------- constants
HISTORY_LIMIT == 100

\* Option::None, for a command number and for an exit code
None == -1
Cmds == 1..MaxCmds
Streams == {"stdout", "stderr"}
ExitCodes == {0, 1}
Marker == "[stderr] "
RawLines == {<<"a">>}
\* lines a program can print, one of them beginning with the marker itself
OutLines == {<<"a">>, <<Marker, "a">>}
KilledMsg == <<"[Process killed by user]">>
WelcomeMsg == <<"Welcome to Halo! A modern shell for a modern age.">>
OsError == "No such file or directory (os error 2)"

VARIABLES
    kill_sender,    \* CommandManager.kill_sender: None or the command whose sender it holds
    child,          \* per command: state of the OS process
    status,         \* per command: exit status of a process that exited on its own
    kill_rx,        \* per command: state of the one-shot receiver the supervisor polls
    sup,            \* per command: position of the supervisor task
    arm,            \* per command: the select! arm the supervisor took
    drainer,        \* per command and stream: whether the drainer task was started
    pipe,           \* per command and stream: lines written and not yet read
    written,        \* per command and stream: the chunks the process wrote
    sent,           \* every update ever placed on the update channel, in order
    received,       \* number of updates command_update_rx has taken
    command_log,    \* State.command_log
    spawned,        \* number of spawn_command calls made so far
    kills,          \* number of kill_command calls made so far
    result,         \* what the latest CommandManager call returned
    cancelled,      \* per command: child state seen when kill_running_command fired its sender
    rx_alive,       \* whether the receiving half of the update channel still exists
    input_buffer,   \* State.input_buffer, as the sequence of its UTF-8 bytes
    cursor_position, \* State.cursor_position
    history,        \* State.history
    history_index,  \* State.history_index: None or an index, counted from 0
    scroll_offset,  \* State.scroll_offset
    completion_state, \* State.completion_state
    should_quit,    \* State.should_quit
    panicked,       \* whether a key handler panicked
    events          \* number of key and mouse events handled (a Ctrl-C that cancels counts in kills)

\* the editing state of State
ui == <<input_buffer, cursor_position, history, history_index, scroll_offset,
        completion_state, should_quit, panicked, events>>

vars == <<kill_sender, child, status, kill_rx, sup, arm, drainer, pipe, written,
          sent, received, command_log, spawned, kills, result, cancelled, rx_alive, ui>>

\* ------------------------------------------------------------ data types
\* CommandUpdate::NewLine(text); cmd, src and seq record where the line came from
NewLine(c, s, n, text) ==
    [kind |-> "NewLine", cmd |-> c, src |-> s, seq |-> n, text |-> text, code |-> None]

\* variant: both arms pass on the exit status the process left
FinishedCodeAlways(a, st) == st
\* variant: the exit arm passes the wait status on
FinishedCodeReported(a, st) == IF a = "exit" THEN st ELSE None
\* what the supervisor puts into Finished: the unit variant has no payload,
\* the wait status is discarded (let _ = status)
FinishedCode(a, st) == None

\* CommandUpdate::Finished as the supervisor of command c sends it
Finished(c, a, st) ==
    [kind |-> "Finished", cmd |-> c, src |-> "none", seq |-> 0, text |-> <<>>,
     code |-> FinishedCode(a, st)]

\* the stdout drainer forwards the line as read
StdoutLine(line) == line
\* variant: the stderr drainer forwards the line as read
StderrLineBare(line) == line
\* the stderr drainer sends format!("[stderr] {}", line)
StderrLine(line) == <<Marker>> \o line
Format(s, line) == IF s = "stdout" THEN StdoutLine(line) ELSE StderrLine(line)

\* what a process writes in one go: a line with its newline, or bytes without
\* a newline after them
Terminated(line) == [text |-> line, nl |-> TRUE, utf8 |-> TRUE]
Partial(line) == [text |-> line, nl |-> FALSE, utf8 |-> TRUE]
\* a line whose bytes are not valid UTF-8: next_line() returns Err for it
Garbled(line) == [text |-> line, nl |-> TRUE, utf8 |-> FALSE]

\* UnboundedSender::send: the update is queued while the receiver exists,
\* otherwise send returns Err and nothing is queued
Send(u) == IF rx_alive THEN Append(sent, u) ELSE sent

\* output_line.strip_prefix("[stderr] "): the consumer styles a line as stderr
\* when it begins with the marker, and shows it without the marker
IsStderrStyled(text) == text # <<>> /\ Head(text) = Marker
StripMarker(text) == IF IsStderrStyled(text) THEN Tail(text) ELSE text

\* CommandLog::new(command, output, is_running, cwd)
CommandLog(command, output, is_running) ==
    [command |-> command, output |-> output, is_running |-> is_running,
     exit_code |-> None]

\* ------------------------------------------------------- State (state.rs)
\* add_log_entry: push a running entry, keep the newest HISTORY_LIMIT entries
add_log_entry(log, command) ==
    LET pushed == Append(log, CommandLog(command, <<>>, TRUE))
    IN  IF Len(pushed) > HISTORY_LIMIT
        THEN SubSeq(pushed, Len(pushed) - HISTORY_LIMIT + 1, Len(pushed))
        ELSE pushed

\* append_to_last_log: a new line of output on the last entry
append_to_last_log(log, line) ==
    IF log = <<>> THEN log
    ELSE [log EXCEPT ![Len(log)].output = Append(@, line)]

\* finish_last_log
finish_last_log(log) ==
    IF log = <<>> THEN log
    ELSE [log EXCEPT ![Len(log)].is_running = FALSE]

\* finish_last_log_with_result
finish_last_log_with_result(log, code) ==
    IF log = <<>> THEN log
    ELSE [log EXCEPT ![Len(log)].is_running = FALSE, ![Len(log)].exit_code = code]

\* one iteration of the loop of process_command_updates
ApplyUpdate(log, u) ==
    IF u.kind = "NewLine" THEN append_to_last_log(log, u.text)
    ELSE finish_last_log_with_result(log, u.code)

RECURSIVE ApplyUpdates(_, _)
ApplyUpdates(log, us) ==
    IF us = <<>> THEN log
    ELSE ApplyUpdates(ApplyUpdate(log, Head(us)), Tail(us))

\* the updates queued in the channel
Queued == SubSeq(sent, received + 1, Len(sent))

\* the editing state State::new builds; h is what load_history found
NewEditState(h) ==
    /\ input_buffer = <<>>
    /\ cursor_position = 0
    /\ history = h
    /\ history_index = None
    /\ scroll_offset = 0
    /\ completion_state = [active |-> FALSE, suggestions |-> <<>>, selected_index |-> 0]
    /\ should_quit = FALSE
    /\ panicked = FALSE
    /\ events = 0

\* ------------------------------------------------------------------ Init
Init ==
    /\ kill_sender = None
    /\ child = [c \in Cmds |-> "none"]
    /\ status = [c \in Cmds |-> None]
    /\ kill_rx = [c \in Cmds |-> "none"]
    /\ sup = [c \in Cmds |-> "none"]
    /\ arm = [c \in Cmds |-> "none"]
    /\ drainer = [c \in Cmds |-> [s \in Streams |-> "none"]]
    /\ pipe = [c \in Cmds |-> [s \in Streams |-> <<>>]]
    /\ written = [c \in Cmds |-> [s \in Streams |-> <<>>]]
    /\ sent = <<>>
    /\ received = 0
    /\ command_log = <<CommandLog(0, <<WelcomeMsg>>, FALSE)>>
    /\ spawned = 0
    /\ kills = 0
    /\ result = "none"
    /\ cancelled = [c \in Cmds |-> "no"]
    /\ rx_alive = TRUE
    /\ NewEditState(<<>>)

\* ------------------------------------------------ CommandManager (command.rs)
\* variant: the supervisor is started before the spawn result is looked at
StartedSupAlways(ok) == "select"
\* the supervisor task exists only after a successful spawn
StartedSup(ok) == IF ok THEN "select" ELSE "none"

\* variant: the slot is emptied before the process is started
NewSlotCleared(c, ok) == IF ok THEN c ELSE None
\* variant: a sender already in the slot is kept
NewSlotKeepOld(c, ok) == IF ok /\ kill_sender = None THEN c ELSE kill_sender
\* the slot after spawn_command: `?` returns before the slot is assigned
NewSlot(c, ok) == IF ok THEN c ELSE kill_sender

\* assigning the slot drops the sender it held: the receiver of that command
\* completes with RecvError
DropOld(rx, ok) ==
    IF ok /\ kill_sender # None /\ sup[kill_sender] # "done" /\ rx[kill_sender] = "open"
    THEN [rx EXCEPT ![kill_sender] = "closed"]
    ELSE rx

\* spawn_command for command c; ok says whether the OS started the process
spawn_command(c, ok) ==
    /\ child' = [child EXCEPT ![c] = IF ok THEN "running" ELSE "failed"]
    /\ kill_rx' = IF ok THEN [DropOld(kill_rx, ok) EXCEPT ![c] = "open"] ELSE kill_rx
    /\ kill_sender' = NewSlot(c, ok)
    /\ drainer' = [drainer EXCEPT ![c] = [s \in Streams |-> IF ok THEN "reading" ELSE "none"]]
    /\ sup' = [sup EXCEPT ![c] = StartedSup(ok)]
    /\ result' = IF ok THEN "Ok" ELSE "Err"

\* variant: with an empty slot the latest command is cancelled
KillTargetLast == IF kill_sender = None /\ spawned > 0 THEN spawned ELSE kill_sender
\* the sender kill_running_command takes out of the slot
KillTarget == kill_sender

\* variant: the sender is fired through a reference and stays in the slot
SlotAfterKillKept == kill_sender
\* kill_sender.take() leaves None in the slot
SlotAfterKill == None

\* kill_running_command: take the sender and fire it; a failed send is ignored
kill_running_command ==
    LET t == KillTarget
    IN  /\ kill_sender' = SlotAfterKill
        /\ kill_rx' = IF t # None /\ sup[t] # "done"
                      THEN [kill_rx EXCEPT ![t] = "sent"]
                      ELSE kill_rx
        /\ cancelled' = IF t # None /\ cancelled[t] = "no"
                        THEN [cancelled EXCEPT ![t] = child[t]]
                        ELSE cancelled
        /\ result' = "Ok"

\* ------------------------------------------------------------ the process
\* the process runs; "unkillable" is a running process that the OS did not
\* let the shell signal (kill(2) failed with EPERM, as for a setuid program)
Alive(c) == child[c] \in {"running", "unkillable"}

\* number of lines written so far by the processes 1..c
RECURSIVE TotalWritten(_)
TotalWritten(c) ==
    IF c = 0 THEN 0
    ELSE Len(written[c]["stdout"]) + Len(written[c]["stderr"]) + TotalWritten(c - 1)

\* the process writes a chunk to one of its streams; bytes without a newline
\* are the last thing it writes there
WriteChunk(c, s, chunk) ==
    /\ Alive(c)
    /\ drainer[c][s] = "reading"
    /\ \A i \in 1..Len(written[c][s]) : written[c][s][i].nl
    /\ pipe' = [pipe EXCEPT ![c][s] = Append(@, chunk)]
    /\ written' = [written EXCEPT ![c][s] = Append(@, chunk)]
    /\ UNCHANGED <<kill_sender, child, status, kill_rx, sup, arm, drainer, sent,
                   received, command_log, spawned, kills, result, cancelled, rx_alive, ui>>

\* the process writes one more line to one of its streams
ProcWrite(c, s, line) ==
    /\ TotalWritten(MaxCmds) < MaxLines
    /\ WriteChunk(c, s, Terminated(line))

\* a process that prints up to MaxChunks chunks on each stream
ProcPrint(c, s, chunk) ==
    /\ Len(written[c][s]) < MaxChunks
    /\ WriteChunk(c, s, chunk)

\* the process exits on its own with exit status code
ProcExit(c, code) ==
    /\ Alive(c)
    /\ child' = [child EXCEPT ![c] = "exited"]
    /\ status' = [status EXCEPT ![c] = code]
    /\ UNCHANGED <<kill_sender, kill_rx, sup, arm, drainer, pipe, written, sent,
                   received, command_log, spawned, kills, result, cancelled, rx_alive, ui>>

\* a process that was sent the kill signal dies
ProcDie(c) ==
    /\ child[c] = "dying"
    /\ child' = [child EXCEPT ![c] = "killed"]
    /\ UNCHANGED <<kill_sender, status, kill_rx, sup, arm, drainer, pipe, written, sent,
                   received, command_log, spawned, kills, result, cancelled, rx_alive, ui>>

\* ------------------------------------------------------------ the drainers
\* variant: bytes without a newline are never returned as a line
LineReadyTerminated(c, s) == pipe[c][s] # <<>> /\ Head(pipe[c][s]).nl
\* next_line() has a line to return: a whole line is in the pipe, or the
\* stream is at its end with bytes left over (tokio Lines::poll_next_line
\* returns the rest of the buffer at end of stream)
LineReady(c, s) ==
    /\ pipe[c][s] # <<>>
    /\ Head(pipe[c][s]).nl \/ child[c] \in {"exited", "killed"}

\* variant: the reader hands out the newest chunk of the pipe
NextLineNewest(p) == p[Len(p)].text
\* the line next_line() returns: the oldest unread one, without its newline
NextLine(p) == Head(p).text

\* variant: a drainer keeps reading after a failed send
DrainerAfterSendLoop(alive) == "reading"
\* `if tx.send(..).is_err() { break; }`: the task ends at the first failed send
DrainerAfterSend(alive) == IF alive THEN "reading" ELSE "stopped"

\* next_line() returned Some(line): send it
DrainLine(c, s) ==
    /\ drainer[c][s] = "reading"
    /\ LineReady(c, s)
    /\ Head(pipe[c][s]).utf8
    /\ sent' = Send(NewLine(c, s, Len(written[c][s]) - Len(pipe[c][s]) + 1,
                            Format(s, NextLine(pipe[c][s]))))
    /\ drainer' = [drainer EXCEPT ![c][s] = DrainerAfterSend(rx_alive)]
    /\ pipe' = [pipe EXCEPT ![c][s] = Tail(@)]
    /\ UNCHANGED <<kill_sender, child, status, kill_rx, sup, arm, written,
                   received, command_log, spawned, kills, result, cancelled, rx_alive, ui>>

\* variant: a read error on one stream ends both drainers of the command
DrainerAfterErrorBoth(d, s) == [x \in Streams |-> "stopped"]
\* `while let Ok(Some(line))`: an Err from next_line() ends the loop of the
\* task that read it
DrainerAfterError(d, s) == [d EXCEPT ![s] = "stopped"]

\* next_line() returned Err (the line is not valid UTF-8): the task ends and
\* sends nothing
DrainError(c, s) ==
    /\ drainer[c][s] = "reading"
    /\ LineReady(c, s)
    /\ ~Head(pipe[c][s]).utf8
    /\ drainer' = [drainer EXCEPT ![c] = DrainerAfterError(@, s)]
    /\ pipe' = [pipe EXCEPT ![c][s] = Tail(@)]
    /\ UNCHANGED <<kill_sender, child, status, kill_rx, sup, arm, written, sent,
                   received, command_log, spawned, kills, result, cancelled, rx_alive, ui>>

\* next_line() returned None: the stream is at its end and the task is over
\* (the task takes no further step, so its end is read off the pipe)
DrainerDone(c, s) ==
    /\ drainer[c][s] = "reading"
    /\ pipe[c][s] = <<>>
    /\ child[c] \in {"exited", "killed"}

\* ---------------------------------------------------------- the supervisor
\* variant: the exit arm does not wait for the exit
ChildExitedOrRunning(c) == child[c] \in {"exited", "running"}
\* child.wait() is ready
ChildExited(c) == child[c] = "exited"

\* the receiver is ready: a value was sent, or the sender was dropped
KillRxReady(c) == kill_rx[c] \in {"sent", "closed"}

\* variant: child.kill() sends no signal
KillChildNoop(st) == st
\* variant: child.kill() also signals a process that already exited
KillChildAlways(st) == "dying"
\* child.kill(): the signal reaches a process that is still running
KillChild(st) == IF st = "running" THEN "dying" ELSE st

\* variant: the arm does not break out of the loop
SupNextLoop(c) == "select"
\* variant: only the exit arm breaks, the kill arm goes round the loop again
SupNextRetry(c) == IF arm[c] = "kill" THEN "select" ELSE "done"
\* after an arm breaks out of the loop and Finished is sent the task ends
SupNext(c) == "done"

\* select! arm `status = child.wait()`: break, send Finished
SupExit(c) ==
    /\ sup[c] = "select"
    /\ ChildExited(c)
    /\ arm' = [arm EXCEPT ![c] = "exit"]
    /\ sent' = Send(Finished(c, "exit", status[c]))
    /\ sup' = [sup EXCEPT ![c] = SupNext(c)]
    /\ UNCHANGED <<kill_sender, child, status, kill_rx, drainer, pipe, written,
                   received, command_log, spawned, kills, result, cancelled, rx_alive, ui>>

\* select! arm `_ = &mut kill_rx`: child.kill() sends the signal and awaits the exit
SupKill(c) ==
    /\ sup[c] = "select"
    /\ KillRxReady(c)
    /\ arm' = [arm EXCEPT ![c] = "kill"]
    /\ child' = [child EXCEPT ![c] = KillChild(@)]
    /\ sup' = [sup EXCEPT ![c] = "killing"]
    /\ UNCHANGED <<kill_sender, status, kill_rx, drainer, pipe, written, sent,
                   received, command_log, spawned, kills, result, cancelled, rx_alive, ui>>

\* select! arm `_ = &mut kill_rx` when the OS refuses the signal: child.kill()
\* returns the Err of start_kill() without waiting, `let _ =` drops it, the arm
\* breaks and Finished is sent; dropping the handle (kill_on_drop) signals
\* again and is refused again, so the process runs on
SupKillFailed(c) ==
    /\ sup[c] = "select"
    /\ KillRxReady(c)
    /\ child[c] = "running"
    /\ arm' = [arm EXCEPT ![c] = "kill"]
    /\ child' = [child EXCEPT ![c] = "unkillable"]
    /\ sent' = Send(Finished(c, "kill", status[c]))
    /\ sup' = [sup EXCEPT ![c] = SupNext(c)]
    /\ UNCHANGED <<kill_sender, status, kill_rx, drainer, pipe, written,
                   received, command_log, spawned, kills, result, cancelled, rx_alive, ui>>

\* variant: child.kill() returns only when its signal ended the process
KillReturnedKilled(c) == child[c] = "killed"
\* child.kill().await returns once the process has ended, whether the signal
\* ended it or it was gone already (an Err is dropped by `let _ =`)
KillReturned(c) == child[c] \in {"exited", "killed"}

\* child.kill().await returned: break, send Finished
SupKilled(c) ==
    /\ sup[c] = "killing"
    /\ KillReturned(c)
    /\ sent' = Send(Finished(c, "kill", status[c]))
    /\ sup' = [sup EXCEPT ![c] = SupNext(c)]
    /\ UNCHANGED <<kill_sender, child, status, kill_rx, arm, drainer, pipe, written,
                   received, command_log, spawned, kills, result, cancelled, rx_alive, ui>>

\* a caller of the manager calls spawn_command
Spawn(ok) ==
    /\ spawned < MaxCmds
    /\ spawned' = spawned + 1
    /\ spawn_command(spawned + 1, ok)
    /\ UNCHANGED <<status, arm, pipe, written, sent, received, command_log, kills, cancelled, rx_alive, ui>>

\* a caller of the manager calls kill_running_command
Kill ==
    /\ kills < MaxKills
    /\ kills' = kills + 1
    /\ kill_running_command
    /\ UNCHANGED <<child, status, sup, arm, drainer, pipe, written, sent, received,
                   command_log, spawned, rx_alive, ui>>

\* ------------------------------------------------------------ App (app.rs)
\* the inline message of a failed spawn: format!("{cmd}: {e}")
SpawnErrorMsg(c) == <<ToString(c), ": ", OsError>>

\* variant: the entry of a failed spawn is left running
FailedEntryRunning(log, c) == append_to_last_log(log, SpawnErrorMsg(c))
\* the Err branch of spawn_command in submit_command: the message goes into the
\* entry just added and the entry is finished
FailedEntry(log, c) == finish_last_log(append_to_last_log(log, SpawnErrorMsg(c)))

\* submit_command with an input that names an external program
submit_command(ok) ==
    /\ spawned < MaxCmds
    /\ LET c == spawned + 1
           added == add_log_entry(command_log, c)
       IN  /\ spawned' = c
           /\ spawn_command(c, ok)
           /\ command_log' = IF ok THEN added
                             ELSE FailedEntry(added, c)
    /\ UNCHANGED <<status, arm, pipe, written, sent, received, kills, cancelled, rx_alive, ui>>

\* kill_command (Ctrl-C outside the completion popup)
kill_command ==
    /\ kills < MaxKills
    /\ kills' = kills + 1
    /\ kill_running_command
    /\ command_log' = append_to_last_log(command_log, KilledMsg)
    /\ UNCHANGED <<child, status, sup, arm, drainer, pipe, written, sent, received, spawned, rx_alive, ui>>

\* variant: the loop waits with recv() until an update is queued
UpdatesAwaited == received < Len(sent)
\* try_recv() returns at once, with Err(Empty) when nothing is queued
TryRecvReturns == TRUE

\* process_command_updates: take every queued update, in order
process_command_updates ==
    /\ rx_alive
    /\ TryRecvReturns
    /\ command_log' = ApplyUpdates(command_log, Queued)
    /\ received' = Len(sent)
    /\ UNCHANGED <<kill_sender, child, status, kill_rx, sup, arm, drainer, pipe, written,
                   sent, spawned, kills, result, cancelled, rx_alive, ui>>

\* App is dropped, and command_update_rx with it; tasks already spawned go on
DropRx ==
    /\ rx_alive
    /\ rx_alive' = FALSE
    /\ UNCHANGED <<kill_sender, child, status, kill_rx, sup, arm, drainer, pipe, written,
                   sent, received, command_log, spawned, kills, result, cancelled, ui>>

\* ------------------------------------------------- text, as UTF-8 bytes
\* a character outside ASCII: its leading byte and its continuation byte
WideChar == <<"C3", "A9">>
\* the characters the keyboard sends
KeyChars == {<<"a">>, <<" ">>, <<"\"">>, WideChar}

\* str::is_char_boundary, for a byte offset counted from 0
is_char_boundary(s, i) ==
    \/ i = 0
    \/ i = Len(s)
    \/ i < Len(s) /\ s[i + 1] # WideChar[2]

RECURSIVE trim_start(_)
trim_start(s) == IF s # <<>> /\ Head(s) = " " THEN trim_start(Tail(s)) ELSE s

RECURSIVE trim_end(_)
trim_end(s) ==
    IF s # <<>> /\ s[Len(s)] = " " THEN trim_end(SubSeq(s, 1, Len(s) - 1)) ELSE s

\* str::trim
trim(s) == trim_end(trim_start(s))

\* str::starts_with
starts_with(s, prefix) ==
    Len(prefix) <= Len(s) /\ SubSeq(s, 1, Len(prefix)) = prefix

\* str::ends_with for one character
ends_with(s, c) == s # <<>> /\ s[Len(s)] = c

\* str::rfind(char::is_whitespace).map_or(0, |i| i + 1)
LastWordStart(s) ==
    IF \E i \in 1..Len(s) : s[i] = " "
    THEN CHOOSE i \in 1..Len(s) : s[i] = " " /\ \A j \in (i + 1)..Len(s) : s[j] # " "
    ELSE 0

RECURSIVE split_whitespace(_)
\* str::split_whitespace
split_whitespace(s) ==
    LET t == trim_start(s)
        n == IF \E i \in 1..Len(t) : t[i] = " "
             THEN (CHOOSE i \in 1..Len(t) : t[i] = " " /\ \A j \in 1..(i - 1) : t[j] # " ") - 1
             ELSE Len(t)
    IN  IF t = <<>> THEN <<>>
        ELSE <<SubSeq(t, 1, n)>> \o split_whitespace(SubSeq(t, n + 1, Len(t)))

\* shlex::split returns None for an input whose last quote is not closed
MismatchedQuotes(s) == Cardinality({i \in 1..Len(s) : s[i] = "\""}) % 2 = 1

RECURSIVE ShlexWord(_, _)
\* the first word shlex::split gives for an input that begins with no blank:
\* quotes group characters and are removed
ShlexWord(s, quoted) ==
    IF s = <<>> THEN <<>>
    ELSE IF Head(s) = "\"" THEN ShlexWord(Tail(s), ~quoted)
    ELSE IF Head(s) = " " /\ ~quoted THEN <<>>
    ELSE <<Head(s)>> \o ShlexWord(Tail(s), quoted)

\* ------------------------------------------------------ the command words
CmdExit == <<"e", "x", "i", "t">>
CmdReload == <<":", "r", "e", "l", "o", "a", "d">>
CmdTheme == <<"t", "h", "e", "m", "e">>
CmdAlias == <<"a", "l", "i", "a", "s">>
CmdCd == <<"c", "d">>
CmdPwd == <<"p", "w", "d">>
\* variant: cd is looked up in PATH like any program
BuiltinsWithoutCd == {CmdExit, CmdReload, CmdTheme, CmdAlias, CmdPwd}
\* the words submit_command handles itself
Builtins == {CmdExit, CmdReload, CmdTheme, CmdAlias, CmdCd, CmdPwd}
\* the match on cmd in submit_command
IsBuiltin(cmd) == cmd \in Builtins

MismatchMsg == <<"Error: Mismatched quotes.">>

\* what a built-in appends to its entry; ok says whether cd could change directory
BuiltinOutput(cmd, ok) ==
    IF cmd = CmdExit THEN <<>>
    ELSE IF cmd = CmdCd THEN (IF ok THEN <<>> ELSE << <<"cd: ", OsError>> >>)
    ELSE IF cmd = CmdReload THEN << <<"[config reloaded]">> >>
    ELSE IF cmd = CmdTheme THEN << <<"theme: ", "cyber-nord">> >>
    ELSE IF cmd = CmdAlias THEN << <<"(no aliases)">> >>
    ELSE << <<"/home">> >>

RECURSIVE AppendLines(_, _)
AppendLines(log, lines) ==
    IF lines = <<>> THEN log
    ELSE AppendLines(append_to_last_log(log, Head(lines)), Tail(lines))

\* ------------------------------------------- CompletionState (completion.rs)
\* the one executable in the directories of PATH and the built-ins offered, sorted
AllCommands == <<<<"a">>, CmdCd, CmdExit, CmdPwd>>

\* suggest_executables
suggest_executables(partial_cmd) ==
    SelectSeq(AllCommands, LAMBDA name : starts_with(name, partial_cmd))

\* fs::read_dir of the directory a partial path is looked up in: the working
\* directory and its parent each hold one directory, which is empty
ReadDir(partial_path) ==
    IF \E i \in 1..Len(partial_path) : partial_path[i] = "/"
    THEN <<>>
    ELSE <<[file_name |-> <<"a">>, is_dir |-> TRUE]>>

\* suggest_paths; a directory gets a trailing slash
suggest_paths(partial_path, dirs_only) ==
    LET found == SelectSeq(ReadDir(partial_path),
                           LAMBDA e : /\ starts_with(e.file_name, partial_path)
                                      /\ (dirs_only => e.is_dir))
    IN  [j \in 1..Len(found) |->
            IF found[j].is_dir THEN found[j].file_name \o <<"/">>
            ELSE found[j].file_name]

\* generate_suggestions
generate_suggestions(input) ==
    LET words == split_whitespace(input)
        token_to_complete == IF ends_with(input, " ") \/ words = <<>> THEN <<>>
                             ELSE words[Len(words)]
        is_completing_command ==
            words = <<>> \/ (Len(words) = 1 /\ ~ends_with(input, " "))
    IN  IF is_completing_command THEN suggest_executables(token_to_complete)
        ELSE suggest_paths(token_to_complete, words[1] = CmdCd)

\* variant: the popup opens whatever was found
PopupOpensAlways(suggestions) == TRUE
\* start_completion: open only with something to show
PopupOpens(suggestions) == suggestions # <<>>

\* start_completion
start_completion(cs, input) ==
    LET found == generate_suggestions(input)
    IN  [active |-> PopupOpens(found), suggestions |-> found, selected_index |-> 0]

\* stop_completion
stop_completion(cs) == [cs EXCEPT !.active = FALSE, !.suggestions = <<>>]

\* variant: the step past the last suggestion does not wrap
NextIndexNoWrap(i, n) == i + 1
\* (selected_index + 1) % len
NextIndex(i, n) == (i + 1) % n

\* next_suggestion
next_suggestion(cs) ==
    IF cs.suggestions # <<>>
    THEN [cs EXCEPT !.selected_index = NextIndex(@, Len(cs.suggestions))]
    ELSE cs

\* (selected_index + len - 1) % len
PreviousIndex(i, n) == (i + n - 1) % n

\* previous_suggestion
previous_suggestion(cs) ==
    IF cs.suggestions # <<>>
    THEN [cs EXCEPT !.selected_index = PreviousIndex(@, Len(cs.suggestions))]
    ELSE cs

\* apply_completion: <<>> for None, else the new input and the new cursor
apply_completion(cs, current_input) ==
    IF cs.selected_index >= Len(cs.suggestions) THEN <<>>
    ELSE LET suggestion == cs.suggestions[cs.selected_index + 1]
             last_word_start == LastWordStart(current_input)
             new_input == SubSeq(current_input, 1, last_word_start) \o suggestion
                          \o (IF ends_with(suggestion, "/") THEN <<>> ELSE <<" ">>)
         IN  <<[input |-> new_input, cursor |-> Len(new_input)]>>

\* ------------------------------------------------- key events (event.rs)
\* the manager, its tasks and the update channel
mgr == <<kill_sender, child, status, kill_rx, sup, arm, drainer, pipe, written,
         sent, received, spawned, kills, result, cancelled, rx_alive>>

\* the main loop is running and hands events to the handler
Handling == ~should_quit /\ ~panicked /\ events + kills < MaxEvents

\* a key the popup does not handle closes it
ClosePopup(cs) == IF cs.active THEN stop_completion(cs) ELSE cs

\* insert_char: String::insert panics off a char boundary
insert_char(ch) ==
    IF is_char_boundary(input_buffer, cursor_position)
    THEN /\ input_buffer' = SubSeq(input_buffer, 1, cursor_position) \o ch
                          \o SubSeq(input_buffer, cursor_position + 1, Len(input_buffer))
         /\ cursor_position' = cursor_position + 1
         /\ UNCHANGED panicked
    ELSE /\ panicked' = TRUE
         /\ UNCHANGED <<input_buffer, cursor_position>>

\* backspace: String::remove panics off a char boundary
backspace ==
    IF cursor_position > 0
    THEN /\ cursor_position' = cursor_position - 1
         /\ IF /\ cursor_position - 1 < Len(input_buffer)
               /\ is_char_boundary(input_buffer, cursor_position - 1)
            THEN /\ input_buffer' =
                    LET w == IF input_buffer[cursor_position] = WideChar[1] THEN 2 ELSE 1
                    IN  SubSeq(input_buffer, 1, cursor_position - 1)
                        \o SubSeq(input_buffer, cursor_position + w, Len(input_buffer))
                 /\ UNCHANGED panicked
            ELSE /\ panicked' = TRUE
                 /\ UNCHANGED input_buffer
    ELSE UNCHANGED <<input_buffer, cursor_position, panicked>>

\* move_cursor_left
move_cursor_left(cursor) == IF cursor > 0 THEN cursor - 1 ELSE 0

\* variant: the cursor moves right whatever the buffer holds
MoveRightUnchecked(buffer, cursor) == cursor + 1
\* move_cursor_right
move_cursor_right(buffer, cursor) == IF cursor < Len(buffer) THEN cursor + 1 ELSE cursor

\* variant: from no index, history up goes one past the newest entry
HistoryUpIndexPastEnd(index, h) ==
    IF index # None THEN (IF index > 0 THEN index - 1 ELSE 0) ELSE Len(h)
\* the index navigate_history_up moves to
HistoryUpIndex(index, h) ==
    IF index # None THEN (IF index > 0 THEN index - 1 ELSE 0) ELSE Len(h) - 1

\* the entry of history loaded into the input line; indexing past the end panics
LoadHistory(new_index) ==
    /\ history_index' = new_index
    /\ IF new_index < Len(history)
       THEN /\ input_buffer' = history[new_index + 1]
            /\ cursor_position' = Len(history[new_index + 1])
            /\ UNCHANGED panicked
       ELSE /\ panicked' = TRUE
            /\ UNCHANGED <<input_buffer, cursor_position>>

\* navigate_history_up
navigate_history_up ==
    IF scroll_offset > 0 \/ history = <<>>
    THEN UNCHANGED <<history_index, input_buffer, cursor_position, panicked>>
    ELSE LoadHistory(HistoryUpIndex(history_index, history))

\* navigate_history_down
navigate_history_down ==
    IF scroll_offset > 0 \/ history = <<>>
    THEN UNCHANGED <<history_index, input_buffer, cursor_position, panicked>>
    ELSE IF history_index # None /\ history_index < Len(history) - 1
    THEN LoadHistory(history_index + 1)
    ELSE /\ history_index' = None
         /\ input_buffer' = <<>>
         /\ cursor_position' = 0
         /\ UNCHANGED panicked

\* variant: the view stays where it was scrolled to
ScrollAfterSubmitKept(offset) == offset
\* exit_preview_mode
ScrollAfterSubmit(offset) == 0

\* submit_command; ok says whether the OS could do what the command asks (start
\* the program, change directory), saved whether the history file was written
submit_input(ok, saved) ==
    LET input == trim(input_buffer)
        last == command_log[Len(command_log)]
        last_was_empty ==
            command_log # <<>> /\ last.command = <<>> /\ last.output = <<>>
        added == add_log_entry(command_log, input)
        push == history = <<>> \/ history[Len(history)] # input
        logged == IF push /\ ~saved THEN append_to_last_log(added, <<"[history save error] ", OsError>>)
                  ELSE added
        cmd == ShlexWord(input, FALSE)
        c == spawned + 1
    IN  /\ events' = events + 1
        /\ scroll_offset' = ScrollAfterSubmit(scroll_offset)
        /\ IF input = <<>>
           THEN /\ command_log' = IF last_was_empty THEN command_log
                                  ELSE Append(command_log, CommandLog(<<>>, <<>>, FALSE))
                /\ UNCHANGED <<input_buffer, cursor_position, history, should_quit, mgr>>
           ELSE /\ history' = IF push THEN Append(history, input) ELSE history
                /\ input_buffer' = <<>>
                /\ cursor_position' = 0
                /\ IF MismatchedQuotes(input)
                   THEN /\ command_log' =
                            finish_last_log(append_to_last_log(logged, MismatchMsg))
                        /\ UNCHANGED <<should_quit, mgr>>
                   ELSE IF IsBuiltin(cmd)
                   THEN /\ should_quit' = (cmd = CmdExit)
                        /\ command_log' =
                            finish_last_log(AppendLines(logged, BuiltinOutput(cmd, ok)))
                        /\ UNCHANGED mgr
                   ELSE /\ spawned < MaxCmds
                        /\ spawned' = c
                        /\ spawn_command(c, ok)
                        /\ command_log' = IF ok THEN logged ELSE FailedEntry(logged, c)
                        /\ UNCHANGED <<should_quit, status, arm, pipe, written, sent,
                                       received, kills, cancelled, rx_alive>>
        /\ UNCHANGED <<history_index, completion_state, panicked>>

\* handle_key_press for a character key
KeyChar(ch) ==
    /\ Handling
    /\ events' = events + 1
    /\ scroll_offset' = 0
    /\ completion_state' = ClosePopup(completion_state)
    /\ insert_char(ch)
    /\ UNCHANGED <<history, history_index, should_quit, command_log, mgr>>

\* handle_key_press for Backspace
KeyBackspace ==
    /\ Handling
    /\ events' = events + 1
    /\ scroll_offset' = 0
    /\ completion_state' = ClosePopup(completion_state)
    /\ backspace
    /\ UNCHANGED <<history, history_index, should_quit, command_log, mgr>>

\* handle_key_press for Left
KeyLeft ==
    /\ Handling
    /\ events' = events + 1
    /\ completion_state' = ClosePopup(completion_state)
    /\ cursor_position' = move_cursor_left(cursor_position)
    /\ UNCHANGED <<input_buffer, history, history_index, scroll_offset, should_quit,
                   panicked, command_log, mgr>>

\* handle_key_press for Right
KeyRight ==
    /\ Handling
    /\ events' = events + 1
    /\ completion_state' = ClosePopup(completion_state)
    /\ cursor_position' = move_cursor_right(input_buffer, cursor_position)
    /\ UNCHANGED <<input_buffer, history, history_index, scroll_offset, should_quit,
                   panicked, command_log, mgr>>

\* handle_key_press for Up: the previous suggestion, or the older history entry
KeyUp ==
    /\ Handling
    /\ events' = events + 1
    /\ IF completion_state.active
       THEN /\ completion_state' = previous_suggestion(completion_state)
            /\ UNCHANGED <<history_index, input_buffer, cursor_position, panicked>>
       ELSE /\ navigate_history_up
            /\ UNCHANGED completion_state
    /\ UNCHANGED <<history, scroll_offset, should_quit, command_log, mgr>>

\* handle_key_press for Down: the next suggestion, or the newer history entry
KeyDown ==
    /\ Handling
    /\ events' = events + 1
    /\ IF completion_state.active
       THEN /\ completion_state' = next_suggestion(completion_state)
            /\ UNCHANGED <<history_index, input_buffer, cursor_position, panicked>>
       ELSE /\ navigate_history_down
            /\ UNCHANGED completion_state
    /\ UNCHANGED <<history, scroll_offset, should_quit, command_log, mgr>>

\* handle_key_press for Tab: the next suggestion, or the popup opens
KeyTab ==
    /\ Handling
    /\ events' = events + 1
    /\ completion_state' = IF completion_state.active
                           THEN next_suggestion(completion_state)
                           ELSE start_completion(completion_state, input_buffer)
    /\ UNCHANGED <<input_buffer, cursor_position, history, history_index, scroll_offset,
                   should_quit, panicked, command_log, mgr>>

\* handle_key_press for BackTab: the previous suggestion; nothing without the popup
KeyBackTab ==
    /\ Handling
    /\ events' = events + 1
    /\ completion_state' = IF completion_state.active
                           THEN previous_suggestion(completion_state)
                           ELSE completion_state
    /\ UNCHANGED <<input_buffer, cursor_position, history, history_index, scroll_offset,
                   should_quit, panicked, command_log, mgr>>

\* handle_key_press for Esc: the popup closes; nothing without the popup
KeyEsc ==
    /\ Handling
    /\ events' = events + 1
    /\ completion_state' = ClosePopup(completion_state)
    /\ UNCHANGED <<input_buffer, cursor_position, history, history_index, scroll_offset,
                   should_quit, panicked, command_log, mgr>>

\* handle_key_press for Enter: the selected suggestion is applied, or the line
\* is submitted
KeyEnter(ok, saved) ==
    /\ Handling
    /\ IF completion_state.active
       THEN LET applied == apply_completion(completion_state, input_buffer)
            IN  /\ input_buffer' = IF applied # <<>> THEN applied[1].input
                                   ELSE input_buffer
                /\ cursor_position' = IF applied # <<>> THEN applied[1].cursor
                                      ELSE cursor_position
                /\ completion_state' = stop_completion(completion_state)
                /\ events' = events + 1
                /\ UNCHANGED <<history, history_index, scroll_offset, should_quit,
                               panicked, command_log, mgr>>
       ELSE submit_input(ok, saved)

\* handle_key_press for PageUp
KeyPageUp ==
    /\ Handling
    /\ events' = events + 1
    /\ completion_state' = ClosePopup(completion_state)
    /\ scroll_offset' = IF scroll_offset + 5 < Len(command_log)
                        THEN scroll_offset + 5 ELSE Len(command_log)
    /\ UNCHANGED <<input_buffer, cursor_position, history, history_index, should_quit,
                   panicked, command_log, mgr>>

\* handle_key_press for PageDown
KeyPageDown ==
    /\ Handling
    /\ events' = events + 1
    /\ completion_state' = ClosePopup(completion_state)
    /\ scroll_offset' = IF scroll_offset > 5 THEN scroll_offset - 5 ELSE 0
    /\ UNCHANGED <<input_buffer, cursor_position, history, history_index, should_quit,
                   panicked, command_log, mgr>>

\* handle_mouse_event for ScrollUp
MouseScrollUp ==
    /\ Handling
    /\ events' = events + 1
    /\ scroll_offset' = IF scroll_offset + 1 < Len(command_log)
                        THEN scroll_offset + 1 ELSE Len(command_log)
    /\ UNCHANGED <<input_buffer, cursor_position, history, history_index,
                   completion_state, should_quit, panicked, command_log, mgr>>

\* handle_mouse_event for ScrollDown
MouseScrollDown ==
    /\ Handling
    /\ events' = events + 1
    /\ scroll_offset' = IF scroll_offset > 1 THEN scroll_offset - 1 ELSE 0
    /\ UNCHANGED <<input_buffer, cursor_position, history, history_index,
                   completion_state, should_quit, panicked, command_log, mgr>>

\* variant: Ctrl-C cancels the command whether or not the popup is open
CtrlCKillsAlways == TRUE
\* Ctrl-C goes to kill_command only when the popup is closed
CtrlCKills == ~completion_state.active

\* handle_key_press for Ctrl-C
KeyCtrlC ==
    /\ Handling
    /\ IF CtrlCKills
       THEN kill_command
       ELSE /\ completion_state' = stop_completion(completion_state)
            /\ events' = events + 1
            /\ UNCHANGED <<input_buffer, cursor_position, history, history_index,
                           scroll_offset, should_quit, panicked, command_log,
                           mgr>>

\* -------------------------------------------------------------- behaviours
\* the processes, their exit and the supervisors
Control ==
    \/ \E c \in Cmds, code \in ExitCodes : ProcExit(c, code)
    \/ \E c \in Cmds : ProcDie(c)
    \/ \E c \in Cmds : SupExit(c)
    \/ \E c \in Cmds : SupKill(c)
    \/ \E c \in Cmds : SupKillFailed(c)
    \/ \E c \in Cmds : SupKilled(c)

\* the output of the processes and the drainers
Output ==
    \/ \E c \in Cmds, s \in Streams, line \in RawLines : ProcWrite(c, s, line)
    \/ \E c \in Cmds, s \in Streams : DrainLine(c, s)

\* the output of processes that print several lines, the last one possibly
\* without a newline
Printing ==
    \/ \E c \in Cmds, s \in Streams, line \in OutLines :
           ProcPrint(c, s, Terminated(line)) \/ ProcPrint(c, s, Partial(line))
    \/ \E c \in Cmds, s \in Streams : DrainLine(c, s)

\* the manager under any caller
Next ==
    \/ \E ok \in BOOLEAN : Spawn(ok)
    \/ Kill
    \/ Control
    \/ Output

Spec == Init /\ [][Next]_vars

\* the manager under any caller, with programs that print nothing
CtlNext ==
    \/ \E ok \in BOOLEAN : Spawn(ok)
    \/ Kill
    \/ Control

CtlSpec == Init /\ [][CtlNext]_vars

\* the state after the caller's last spawn_command call, which succeeded; the
\* calls before it failed to start their programs, and the caller has one
\* kill_running_command call left (the earlier ones found the slot empty)
OutInit ==
    /\ kill_sender = MaxCmds
    /\ child = [c \in Cmds |-> IF c = MaxCmds THEN "running" ELSE "failed"]
    /\ status = [c \in Cmds |-> None]
    /\ kill_rx = [c \in Cmds |-> IF c = MaxCmds THEN "open" ELSE "none"]
    /\ sup = [c \in Cmds |-> IF c = MaxCmds THEN "select" ELSE "none"]
    /\ arm = [c \in Cmds |-> "none"]
    /\ drainer = [c \in Cmds |-> [s \in Streams |->
                        IF c = MaxCmds THEN "reading" ELSE "none"]]
    /\ pipe = [c \in Cmds |-> [s \in Streams |-> <<>>]]
    /\ written = [c \in Cmds |-> [s \in Streams |-> <<>>]]
    /\ sent = <<>>
    /\ received = 0
    /\ command_log = <<CommandLog(0, <<WelcomeMsg>>, FALSE)>>
    /\ spawned = MaxCmds
    /\ kills = MaxKills - 1
    /\ result = "Ok"
    /\ cancelled = [c \in Cmds |-> "no"]
    /\ rx_alive = TRUE
    /\ NewEditState(<<>>)

\* one command and its output, under any caller
OutNext ==
    \/ Kill
    \/ Control
    \/ Printing

OutSpec == OutInit /\ [][OutNext]_vars

\* the manager under App
AppNext ==
    \/ \E ok \in BOOLEAN : submit_command(ok)
    \/ kill_command
    \/ process_command_updates
    \/ Control
    \/ Output

AppSpec == Init /\ [][AppNext]_vars

\* the tasks are scheduled fairly and a process that was sent the kill signal
\* dies; a process need not exit on its own
Fairness ==
    /\ \A c \in Cmds : WF_vars(SupExit(c)) /\ WF_vars(SupKill(c)) /\ WF_vars(SupKilled(c))
    /\ \A c \in Cmds : WF_vars(ProcDie(c))
    /\ \A c \in Cmds, s \in Streams : WF_vars(DrainLine(c, s))

FairSpec == Spec /\ Fairness

CtlFairSpec == CtlSpec /\ Fairness

OutFairSpec == OutSpec /\ Fairness

\* one command and its output, with an App that may go away at any time
DropNext ==
    \/ DropRx
    \/ Kill
    \/ Control
    \/ Printing

DropSpec == OutInit /\ [][DropNext]_vars

DropFairSpec == DropSpec /\ Fairness

\* output that holds lines which are not valid UTF-8, and the drainers reading it
Garbling ==
    \/ \E c \in Cmds, s \in Streams, line \in RawLines : ProcPrint(c, s, Garbled(line))
    \/ \E c \in Cmds, s \in Streams : DrainError(c, s)

\* one command and its output, some of which cannot be decoded
ErrNext ==
    \/ Kill
    \/ Control
    \/ Printing
    \/ Garbling

ErrSpec == OutInit /\ [][ErrNext]_vars

ErrFairSpec ==
    /\ ErrSpec
    /\ Fairness
    /\ \A c \in Cmds, s \in Streams : WF_vars(DrainError(c, s))

\* the main loop calls process_command_updates again and again
AppFairSpec == AppSpec /\ Fairness /\ WF_vars(process_command_updates)

\* App::new, with the log entries holding the text of their commands;
\* load_history finds no file, or the lines of an earlier session
UiInit ==
    /\ kill_sender = None
    /\ child = [c \in Cmds |-> "none"]
    /\ status = [c \in Cmds |-> None]
    /\ kill_rx = [c \in Cmds |-> "none"]
    /\ sup = [c \in Cmds |-> "none"]
    /\ arm = [c \in Cmds |-> "none"]
    /\ drainer = [c \in Cmds |-> [s \in Streams |-> "none"]]
    /\ pipe = [c \in Cmds |-> [s \in Streams |-> <<>>]]
    /\ written = [c \in Cmds |-> [s \in Streams |-> <<>>]]
    /\ sent = <<>>
    /\ received = 0
    /\ command_log = <<CommandLog(<<>>, <<WelcomeMsg>>, FALSE)>>
    /\ spawned = 0
    /\ kills = 0
    /\ result = "none"
    /\ cancelled = [c \in Cmds |-> "no"]
    /\ rx_alive = TRUE
    /\ \E h \in {<<>>, <<CmdReload, CmdTheme, CmdAlias>>} : NewEditState(h)

\* the events handle_event gets from the terminal
UiNext ==
    \/ \E ch \in KeyChars : KeyChar(ch)
    \/ KeyBackspace
    \/ KeyLeft
    \/ KeyRight
    \/ KeyUp
    \/ KeyDown
    \/ KeyTab
    \/ KeyBackTab
    \/ KeyEsc
    \/ \E ok \in BOOLEAN, saved \in BOOLEAN : KeyEnter(ok, saved)
    \/ KeyPageUp
    \/ KeyPageDown
    \/ MouseScrollUp
    \/ MouseScrollDown
    \/ KeyCtrlC

\* the user at the keyboard; the commands started stay as they are meanwhile
UiSpec == UiInit /\ [][UiNext]_vars

\* the log after pwd was submitted HISTORY_LIMIT - 1 times: it is full, and
\* nothing was trimmed yet
FullLog ==
    [j \in 1..HISTORY_LIMIT |->
        IF j = 1 THEN CommandLog(<<>>, <<WelcomeMsg>>, FALSE)
        ELSE CommandLog(CmdPwd, BuiltinOutput(CmdPwd, TRUE), FALSE)]

\* a session in which pwd was submitted until the log was full
LogInit ==
    /\ kill_sender = None
    /\ child = [c \in Cmds |-> "none"]
    /\ status = [c \in Cmds |-> None]
    /\ kill_rx = [c \in Cmds |-> "none"]
    /\ sup = [c \in Cmds |-> "none"]
    /\ arm = [c \in Cmds |-> "none"]
    /\ drainer = [c \in Cmds |-> [s \in Streams |-> "none"]]
    /\ pipe = [c \in Cmds |-> [s \in Streams |-> <<>>]]
    /\ written = [c \in Cmds |-> [s \in Streams |-> <<>>]]
    /\ sent = <<>>
    /\ received = 0
    /\ command_log = FullLog
    /\ spawned = 0
    /\ kills = 0
    /\ result = "none"
    /\ cancelled = [c \in Cmds |-> "no"]
    /\ rx_alive = TRUE
    /\ NewEditState(<<CmdPwd>>)

\* the user at the keyboard, late in a long session
LogSpec == LogInit /\ [][UiNext]_vars

\* executables a1, a2, ... that the directories of PATH may hold, sorted
PathPrograms == [i \in 1..MaxSuggestions |-> <<"a", ToString(i)>>]

\* the sorted list of the programs whose numbers are in S
RECURSIVE Sorted(_)
Sorted(S) ==
    IF S = {} THEN <<>>
    ELSE LET m == CHOOSE x \in S : \A y \in S : x <= y
         IN  <<PathPrograms[m]>> \o Sorted(S \ {m})

\* Tab was pressed behind the letter a, and PATH holds some executables whose
\* names begin with it: the popup is open on the first of them
CycleInit ==
    /\ kill_sender = None
    /\ child = [c \in Cmds |-> "none"]
    /\ status = [c \in Cmds |-> None]
    /\ kill_rx = [c \in Cmds |-> "none"]
    /\ sup = [c \in Cmds |-> "none"]
    /\ arm = [c \in Cmds |-> "none"]
    /\ drainer = [c \in Cmds |-> [s \in Streams |-> "none"]]
    /\ pipe = [c \in Cmds |-> [s \in Streams |-> <<>>]]
    /\ written = [c \in Cmds |-> [s \in Streams |-> <<>>]]
    /\ sent = <<>>
    /\ received = 0
    /\ command_log = <<CommandLog(<<>>, <<WelcomeMsg>>, FALSE)>>
    /\ spawned = 0
    /\ kills = 0
    /\ result = "none"
    /\ cancelled = [c \in Cmds |-> "no"]
    /\ rx_alive = TRUE
    /\ input_buffer = <<"a">>
    /\ cursor_position = 1
    /\ history = <<>>
    /\ history_index = None
    /\ scroll_offset = 0
    /\ \E S \in (SUBSET (1..MaxSuggestions)) \ {{}} :
          completion_state = [active |-> TRUE, suggestions |-> Sorted(S),
                              selected_index |-> 0]
    /\ should_quit = FALSE
    /\ panicked = FALSE
    /\ events = 0

\* the selection moved through an open popup by the keys that move it
CycleSpec == CycleInit /\ [][KeyTab \/ KeyDown \/ KeyBackTab \/ KeyUp]_vars

TypeOK ==
    /\ kill_sender \in Cmds \cup {None}
    /\ \A c \in Cmds : status[c] \in ExitCodes \cup {None}
    /\ \A c \in Cmds : child[c] \in {"none", "failed", "running", "unkillable", "dying", "exited", "killed"}
    /\ \A c \in Cmds : sup[c] \in {"none", "select", "killing", "done"}
    /\ received <= Len(sent)
\* ------------------------------------------------------------- properties
\* positions in the channel history of the updates of command c
FinishedAt(c) == {i \in 1..Len(sent) : sent[i].kind = "Finished" /\ sent[i].cmd = c}
NewLineAt(c) == {i \in 1..Len(sent) : sent[i].kind = "NewLine" /\ sent[i].cmd = c}
FinishedCount(c) == Cardinality(FinishedAt(c))
Stopped(c) == child[c] \in {"exited", "killed"}

\* C1: a successfully spawned command has exactly one Finished on the channel:
\* none while its supervisor runs, one from the moment the supervisor ends, never
\* two; and once its process has stopped or its cancellation receiver is ready,
\* the Finished is eventually sent.
C1_ExactlyOneFinished ==
    /\ [](\A c \in Cmds : FinishedCount(c) = IF sup[c] = "done" THEN 1 ELSE 0)
    /\ \A c \in Cmds :
          (sup[c] # "none" /\ (Stopped(c) \/ KillRxReady(c))) ~> (FinishedCount(c) = 1)

\* C1 witness: one command ended through the exit arm and another through the
\* kill arm, each with its single Finished
C1_Witness ==
    \E c, d \in Cmds :
        /\ arm[c] = "exit" /\ arm[d] = "kill"
        /\ sup[c] = "done" /\ sup[d] = "done"
        /\ FinishedCount(c) = 1 /\ FinishedCount(d) = 1

\* C2: a command whose sender was overwritten by a later successful spawn
\* (its receiver saw the sender dropped, no cancellation was sent) is never
\* sent a termination request and its supervisor does not take the kill arm.
C2_OverwrittenCommandKeepsRunning ==
    \A a \in Cmds :
        kill_rx[a] = "closed" => (arm[a] # "kill" /\ child[a] \notin {"dying", "killed"})

\* C3: the Finished of a process that exited on its own with status c, with no
\* cancellation requested, carries c, and the log entry the consumer ends with
\* it records c.
C3_ExitCodeReported ==
    /\ \A i \in 1..Len(sent) :
          (sent[i].kind = "Finished" /\ arm[sent[i].cmd] = "exit"
              /\ cancelled[sent[i].cmd] = "no")
          => sent[i].code = status[sent[i].cmd]
    /\ \A j \in 1..Len(command_log) :
          LET e == command_log[j]
          IN  (e.command \in Cmds /\ ~e.is_running /\ child[e.command] = "exited"
                  /\ arm[e.command] = "exit" /\ cancelled[e.command] = "no")
              => e.exit_code = status[e.command]

\* C4: the Finished of a command whose sender was fired while its process was
\* still running carries no exit code, whichever arm the supervisor took.
C4_CancelledHasNoExitCode ==
    \A i \in 1..Len(sent) :
        (sent[i].kind = "Finished" /\ cancelled[sent[i].cmd] = "running")
        => sent[i].code = None

\* C4 witness: cancellation was requested while the process ran, the process
\* then exited on its own and the exit arm won the race
C4_Witness ==
    \E i \in 1..Len(sent) :
        /\ sent[i].kind = "Finished"
        /\ cancelled[sent[i].cmd] = "running"
        /\ arm[sent[i].cmd] = "exit"
        /\ status[sent[i].cmd] # None

\* C5 as stated: in channel order no NewLine of a command follows its Finished.
C5_NoLineAfterFinished ==
    \A c \in Cmds : \A i \in FinishedAt(c) : \A j \in NewLineAt(c) : j < i

\* lines of command c placed after its Finished, and lines still in its pipes
LinesAfterFinished(c) ==
    Cardinality({j \in NewLineAt(c) : \E i \in FinishedAt(c) : i < j})
PipeLen(c) == Len(pipe[c]["stdout"]) + Len(pipe[c]["stderr"])
WrittenLen(c) == Len(written[c]["stdout"]) + Len(written[c]["stderr"])

\* C5 amended: when the Finished of a command is on the channel its process has
\* stopped, or the OS refused to kill it; a stopped process writes nothing
\* more; a NewLine placed after Finished is a line that was still unread in a
\* pipe when Finished was sent, or one that a process which could not be killed
\* wrote later.
C5_LinesAfterFinishedWereBuffered ==
    [][\A c \in Cmds :
          FinishedCount(c) = 1 =>
              /\ Stopped(c) \/ child[c] = "unkillable"
              /\ Stopped(c) => written'[c] = written[c]
              /\ LinesAfterFinished(c)' + PipeLen(c)'
                    = LinesAfterFinished(c) + PipeLen(c) + WrittenLen(c)' - WrittenLen(c)]_vars

\* C5 witness: a NewLine of a command stands after its Finished
C5_Witness ==
    \E c \in Cmds : \E i \in FinishedAt(c) : \E j \in NewLineAt(c) : i < j

\* C6 as stated: once the sender of a command is fired while its process runs,
\* eventually a termination request is issued to the process, the process has
\* stopped and Finished is on the channel.
C6_KillEventuallyTerminates ==
    \A c \in Cmds :
        (cancelled[c] = "running")
            ~> (arm[c] = "kill" /\ Stopped(c) /\ FinishedCount(c) = 1)

\* C6 amended: once the sender of a command is fired while its process runs,
\* eventually Finished is on the channel, also when the process never exits on
\* its own, and the process has stopped by then unless the OS refused to kill
\* it; the termination request is issued unless the process exited on its own
\* and the exit arm won.
C6_KillEventuallyStops ==
    \A c \in Cmds :
        (cancelled[c] = "running")
            ~> ((Stopped(c) \/ child[c] = "unkillable") /\ FinishedCount(c) = 1
                  /\ (arm[c] = "kill" \/ (arm[c] = "exit" /\ child[c] = "exited")))

\* C6 witness: a process cancelled while running was killed and its Finished sent
C6_Witness ==
    \E c \in Cmds :
        cancelled[c] = "running" /\ child[c] = "killed" /\ FinishedCount(c) = 1

\* C7: a failed spawn_command returns the error, starts no drainer and no
\* supervisor, creates no cancellation channel, and no update of that call is
\* ever on the channel.
C7_FailedSpawnStartsNothing ==
    /\ \A c \in Cmds :
          child[c] = "failed" =>
              /\ sup[c] = "none" /\ arm[c] = "none" /\ kill_rx[c] = "none"
              /\ \A s \in Streams : drainer[c][s] = "none"
              /\ \A i \in 1..Len(sent) : sent[i].cmd # c
    /\ result = "Err" => (spawned > 0 /\ child[spawned] = "failed")

\* C7 witness: a spawn failed while another command went on to emit an update
C7_Witness ==
    \E c \in Cmds : child[c] = "failed" /\ c < spawned /\ Len(sent) > 0

\* C8: the step of a failed spawn_command leaves the slot and every
\* cancellation channel as they were, and the next kill_running_command
\* fires the sender that is in the slot.
C8_FailedSpawnKeepsSlot ==
    /\ [][\A c \in Cmds :
            (child[c] = "none" /\ child'[c] = "failed")
            => (kill_sender' = kill_sender /\ kill_rx' = kill_rx)]_vars
    /\ [][(kills' = kills + 1 /\ kill_sender # None)
            => (sup[kill_sender] # "done" => kill_rx'[kill_sender] = "sent")]_vars

\* C8 witness: a spawn has just failed while the slot holds the sender of a
\* command that is still running
C8_Witness ==
    /\ result = "Err"
    /\ kill_sender # None
    /\ child[kill_sender] = "running"

\* C9: kill_running_command with an empty slot returns Ok, sends nothing on the
\* update channel, touches no process, no cancellation channel and no
\* supervisor, and leaves the slot empty.
C9_KillWithEmptySlotIsNoop ==
    [][(kills' = kills + 1 /\ kill_sender = None)
        => /\ result' = "Ok"
           /\ kill_sender' = None
           /\ UNCHANGED <<sent, child, status, kill_rx, sup, arm, cancelled>>]_vars

\* C9 witness: kill_running_command was called after commands were spawned and
\* the slot had been emptied by an earlier call
C9_Witness ==
    /\ kills = MaxKills
    /\ spawned > 0
    /\ kill_sender = None
    /\ \E c \in Cmds : child[c] = "running" /\ cancelled[c] = "no"

\* C10: kill_running_command for a tracked command whose process already
\* exited on its own returns Ok, puts nothing on the update channel and changes
\* no process; such a command never gets a second Finished and its process is
\* never sent a termination request.
C10_KillAfterExitIsNoop ==
    /\ [](\A c \in Cmds :
            cancelled[c] = "exited" => (child[c] = "exited" /\ FinishedCount(c) <= 1))
    /\ [][(kills' = kills + 1 /\ kill_sender # None /\ child[kill_sender] = "exited")
            => (result' = "Ok" /\ UNCHANGED <<sent, child, status>>)]_vars

\* C10 witness: the sender was fired after the supervisor had already sent
\* Finished through the exit arm, so the send found the receiver closed
C10_Witness ==
    \E c \in Cmds :
        /\ cancelled[c] = "exited"
        /\ arm[c] = "exit"
        /\ sup[c] = "done"
        /\ kill_rx[c] = "open"
        /\ FinishedCount(c) = 1
\* the most recent successful spawn among the commands 1..c, None if there is none
RECURSIVE LastSpawned(_)
LastSpawned(c) ==
    IF c = 0 THEN None
    ELSE IF child[c] \notin {"none", "failed"} THEN c ELSE LastSpawned(c - 1)

\* C11: kill_running_command is idempotent: every call leaves the slot empty,
\* and a call that directly follows another call (no spawn_command between
\* them) changes nothing of the manager, the cancellation channels, the
\* processes, the supervisors or the update channel.
C11_KillTwiceIsKillOnce ==
    /\ [][kills' = kills + 1 => kill_sender' = None]_vars
    /\ [][(kills' = kills + 1 /\ kills > 0 /\ result = "Ok" /\ kill_sender = None)
            => UNCHANGED <<kill_sender, kill_rx, cancelled, result, sent, child, status,
                           sup, arm, drainer, pipe>>]_vars

\* C11 witness: two calls were made, the sender of a running command was fired
\* once and its supervisor has not yet looked at it
C11_Witness ==
    /\ kills = 2
    /\ kill_sender = None
    /\ result = "Ok"
    /\ \E c \in Cmds :
          cancelled[c] = "running" /\ kill_rx[c] = "sent" /\ sup[c] = "select"

\* C12: the slot holds nothing but the sender of the most recent successful
\* spawn, and a kill_running_command call changes the cancellation channel of
\* that command only, by sending on it.
C12_SlotHoldsLatestSender ==
    /\ [](kill_sender # None => kill_sender = LastSpawned(spawned))
    /\ [][kills' = kills + 1 =>
            \A c \in Cmds :
                kill_rx'[c] # kill_rx[c] =>
                    (c = kill_sender /\ c = LastSpawned(spawned) /\ kill_rx'[c] = "sent")]_vars

\* C12 witness: two commands were spawned and run, the signal went to the later
\* one and not to the earlier one
C12_Witness ==
    \E a, b \in Cmds :
        /\ a < b
        /\ child[a] = "running" /\ child[b] = "running"
        /\ kill_rx[b] = "sent" /\ kill_rx[a] # "sent"
        /\ cancelled[a] = "no"

\* C13: the supervisor of a command takes the kill arm, and its process is sent
\* a termination request, only if kill_running_command fired the sender of that
\* command before.
C13_KillOnlyOnUserRequest ==
    \A c \in Cmds :
        (arm[c] = "kill" \/ child[c] \in {"dying", "killed"}) => cancelled[c] # "no"
\* the Line updates of stream s of command c, in channel order
StreamLines(c, s) ==
    LET FromStream(u) == u.kind = "NewLine" /\ u.cmd = c /\ u.src = s
    IN  SelectSeq(sent, FromStream)

\* the chunk of its stream that a Line update was read from
ChunkOf(u) == written[u.cmd][u.src][u.seq]

LineUpdates == {i \in 1..Len(sent) : sent[i].kind = "NewLine"}

\* C14: for each stream of a command, the Line updates from that stream are, in
\* channel order, the first lines written to the stream, each once and in the
\* order written; the lines not yet sent are the ones still in the pipe, in
\* order (so none is lost), whatever the other drainer and the supervisor do.
C14_StreamOrderPreserved ==
    \A c \in Cmds, s \in Streams :
        LET L == StreamLines(c, s)
            W == written[c][s]
        IN  /\ Len(L) + Len(pipe[c][s]) = Len(W)
            /\ \A i \in 1..Len(L) : L[i].seq = i /\ L[i].text = Format(s, W[i].text)
            /\ pipe[c][s] = SubSeq(W, Len(L) + 1, Len(W))

\* C14 witness: two different stdout lines are on the channel in the order
\* written, with a stderr line and Finished between them
C14_Witness ==
    \E c \in Cmds : \E i, j, k, l \in 1..Len(sent) :
        /\ i < j /\ j < k /\ k < l
        /\ sent[i].kind = "NewLine" /\ sent[i].cmd = c /\ sent[i].src = "stdout"
        /\ sent[j].kind = "NewLine" /\ sent[j].cmd = c /\ sent[j].src = "stderr"
        /\ sent[k].kind = "Finished" /\ sent[k].cmd = c
        /\ sent[l].kind = "NewLine" /\ sent[l].cmd = c /\ sent[l].src = "stdout"
        /\ sent[i].text # sent[l].text
        /\ written[c]["stdout"] = <<Terminated(StripMarker(sent[i].text)),
                                    Terminated(<<Marker>> \o sent[i].text)>>

\* C15: a Line update read from stderr is the marker followed by the raw line,
\* and taking the marker off gives the raw line back; a Line update read from
\* stdout is the raw line.
C15_StderrMarkedStdoutRaw ==
    \A i \in LineUpdates :
        LET u == sent[i]
            raw == ChunkOf(u).text
        IN  /\ u.src = "stderr" =>
                    /\ Head(u.text) = Marker
                    /\ Tail(u.text) = raw
                    /\ StripMarker(u.text) = raw
            /\ u.src = "stdout" => u.text = raw

\* C15 witness: a stderr line that itself begins with the marker, a plain
\* stderr line and a plain stdout line are on the channel
C15_Witness ==
    \E i, j, k \in LineUpdates :
        /\ sent[i].src = "stderr" /\ sent[i].text = <<Marker, Marker, "a">>
        /\ sent[j].src = "stderr" /\ sent[j].text = <<Marker, "a">>
        /\ sent[k].src = "stdout" /\ sent[k].text = <<"a">>

\* C16: a Line update begins with the marker if and only if it was read from
\* stderr, so the consumer styles no stdout line as stderr.
C16_MarkerIffStderr ==
    \A i \in LineUpdates : IsStderrStyled(sent[i].text) <=> sent[i].src = "stderr"

EndsPartial(c, s) ==
    /\ child[c] \in {"exited", "killed"}
    /\ written[c][s] # <<>>
    /\ ~written[c][s][Len(written[c][s])].nl

InFlight ==
    {c \in Cmds :
        /\ child[c] \notin {"none", "failed"}
        /\ ~\E i \in 1..received : sent[i].kind = "Finished" /\ sent[i].cmd = c}

\* C18: at most one successfully spawned command has its Finished not yet
\* consumed; submit_command does not spawn while there is one.
C18_OneCommandInFlight == Cardinality(InFlight) <= 1

\* the log entries (by index) of the commands whose spawn failed
FailedEntries ==
    {j \in 1..Len(command_log) :
        command_log[j].command \in Cmds /\ child[command_log[j].command] = "failed"}

\* C19: the submit_command call whose spawn fails leaves the entry of its
\* command last in the log, not running, with the message naming the program
\* and the OS error as its output; from then on that entry is never running,
\* keeps the message as its first output line, and the channel never holds a
\* Finished of that command.
C19_FailedSpawnShownInline ==
    /\ [][\A c \in Cmds :
            (child[c] = "none" /\ child'[c] = "failed") =>
                LET e == command_log'[Len(command_log')]
                IN  /\ Len(command_log') = Len(command_log) + 1
                    /\ e.command = c
                    /\ ~e.is_running
                    /\ e.output = <<SpawnErrorMsg(c)>>
                    /\ SpawnErrorMsg(c)[1] = ToString(c)
                    /\ SpawnErrorMsg(c)[3] = OsError]_vars
    /\ [](\A j \in FailedEntries :
            LET e == command_log[j]
            IN  /\ ~e.is_running
                /\ e.output # <<>>
                /\ e.output[1] = SpawnErrorMsg(e.command)
                /\ sup[e.command] = "none"
                /\ \A i \in 1..Len(sent) : sent[i].cmd # e.command)

\* C19 witness: the spawn of the second command failed while the first was
\* running; the first command's Finished has since been consumed
C19_Witness ==
    \E j \in FailedEntries :
        /\ j = Len(command_log)
        /\ command_log[j].command = 2
        /\ child[1] \in {"exited", "killed"}
        /\ \E i \in 1..received : sent[i].kind = "Finished" /\ sent[i].cmd = 1

\* the cancellation indication of a log entry
ShownCancelled(e) ==
    \/ \E n \in 1..Len(e.output) : e.output[n] = KilledMsg
    \/ e.exit_code = None

\* C20: the entry of a command that has finished carries the cancellation
\* indication if and only if the command was cancelled.
C20_CancelShownIffCancelled ==
    \A j \in 1..Len(command_log) :
        LET e == command_log[j]
        IN  (e.command \in Cmds /\ ~e.is_running /\ sup[e.command] = "done") =>
                (ShownCancelled(e) <=> arm[e.command] = "kill")

\* C21: the supervisor of a command races once: the arm it took stays the arm
\* it took, it is never back in the select! after leaving it, a finished
\* supervisor takes no further step, and once an arm is taken the supervisor
\* sends its Finished and ends.
C21_RaceRunsOnce ==
    /\ [][\A c \in Cmds :
            /\ arm[c] # "none" => arm'[c] = arm[c]
            /\ sup[c] \in {"killing", "done"} => sup'[c] # "select"
            /\ sup[c] = "done" => (sup'[c] = "done" /\ FinishedAt(c)' = FinishedAt(c))]_vars
    /\ \A c \in Cmds :
          (arm[c] # "none") ~> (sup[c] = "done" /\ FinishedCount(c) = 1)

\* C21 witness: a supervisor ended through the exit arm although its
\* cancellation receiver became ready as well, another ended through the kill arm
C21_Witness ==
    \E c, d \in Cmds :
        /\ arm[c] = "exit" /\ sup[c] = "done" /\ KillRxReady(c)
        /\ arm[d] = "kill" /\ sup[d] = "done" /\ FinishedCount(d) = 1

\* C22: a supervisor that took the exit arm never asks for the process to be
\* terminated (the process is left as it exited), and the Finished of a
\* supervisor that took the kill arm carries no exit status, also when the
\* process had exited on its own with one.
C22_OneArmOnly ==
    \A c \in Cmds :
        /\ arm[c] \in {"none", "exit", "kill"}
        /\ arm[c] = "exit" => (child[c] = "exited" /\ sup[c] = "done")
        /\ arm[c] = "kill" => \A i \in FinishedAt(c) : sent[i].code = None

\* C22 witness: the kill arm won for a process that had exited on its own
\* with a status, and its Finished is on the channel
C22_Witness ==
    \E c \in Cmds :
        /\ arm[c] = "kill" /\ sup[c] = "done"
        /\ child[c] = "exited" /\ status[c] # None
        /\ FinishedCount(c) = 1

\* the termination request of command c failed: the process was already gone,
\* or the OS refused the signal
KillFailed(c) == arm[c] = "kill" /\ child[c] \in {"exited", "unkillable"}

\* C23: when the kill arm finds the process already gone, or the OS refuses
\* the signal, the supervisor still ends with exactly one Finished on the
\* channel, and the channel never holds anything but Line and Finished updates.
C23_FailedKillSwallowed ==
    /\ [](\A i \in 1..Len(sent) : sent[i].kind \in {"NewLine", "Finished"})
    /\ [](\A c \in Cmds : KillFailed(c) => FinishedCount(c) = IF sup[c] = "done" THEN 1 ELSE 0)
    /\ \A c \in Cmds : KillFailed(c) ~> (sup[c] = "done" /\ FinishedCount(c) = 1)

\* C23 witness: the sender was fired for a process that had already exited, the
\* kill arm was taken and the supervisor has ended; the kill of another
\* process was refused and its supervisor has ended as well
C23_Witness ==
    \E c, d \in Cmds :
        /\ KillFailed(c) /\ cancelled[c] = "exited"
        /\ sup[c] = "done" /\ FinishedCount(c) = 1
        /\ child[d] = "unkillable" /\ sup[d] = "done" /\ FinishedCount(d) = 1

\* C24: the process of a command whose supervisor has ended is not running: it
\* exited on its own or was killed (kill_on_drop finds nothing left to kill).
C24_NoProcessAfterSupervisor ==
    \A c \in Cmds : sup[c] = "done" => child[c] \in {"exited", "killed"}
\* C25: once the receiver of the update channel is gone nothing more is put on
\* the channel; a drainer that reads a line then stops, and a stopped drainer
\* reads nothing more; drainers stop for no other reason; the supervisor still
\* runs to its end, its failed send of Finished changing nothing.
C25_DrainerStopsOnClosedChannel ==
    /\ [][~rx_alive => sent' = sent]_vars
    /\ [][\A c \in Cmds, s \in Streams :
            /\ (~rx_alive /\ drainer[c][s] = "reading" /\ Len(pipe'[c][s]) < Len(pipe[c][s]))
                  => drainer'[c][s] = "stopped"
            /\ drainer[c][s] = "stopped"
                  => (drainer'[c][s] = "stopped" /\ pipe'[c][s] = pipe[c][s])]_vars
    /\ [](\A c \in Cmds, s \in Streams : drainer[c][s] = "stopped" => ~rx_alive)
    /\ \A c \in Cmds :
          (~rx_alive /\ sup[c] \in {"select", "killing"} /\ (Stopped(c) \/ KillRxReady(c)))
              ~> (sup[c] = "done")

\* C25 witness: the receiver is gone, a drainer stopped with a line left unread
\* in its pipe, and the supervisor ended without its Finished on the channel
C25_Witness ==
    \E c \in Cmds, s \in Streams :
        /\ ~rx_alive
        /\ drainer[c][s] = "stopped"
        /\ Len(StreamLines(c, s)) + Len(pipe[c][s]) + 1 = Len(written[c][s])
        /\ pipe[c][s] # <<>>
        /\ sup[c] = "done" /\ FinishedCount(c) = 0
\* C26: a read error ends the drainer that read it and nothing else: the step
\* puts nothing on the channel and leaves the other drainer, its pipe, the
\* supervisor and the process as they are; no Line update exists for a line
\* that could not be decoded; what is on the channel stays; the command has its
\* one Finished when its supervisor ends, and gets it; a drainer that met no
\* error reads its stream to the end.
C26_ReadErrorEndsOneDrainer ==
    /\ [][\A c \in Cmds, s \in Streams :
            (drainer[c][s] = "reading" /\ drainer'[c][s] = "stopped") =>
                /\ sent' = sent
                /\ sup'[c] = sup[c] /\ child'[c] = child[c]
                /\ \A o \in Streams \ {s} :
                      drainer'[c][o] = drainer[c][o] /\ pipe'[c][o] = pipe[c][o]]_vars
    /\ [][Len(sent') >= Len(sent) /\ SubSeq(sent', 1, Len(sent)) = sent]_vars
    /\ [](\A i \in LineUpdates : ChunkOf(sent[i]).utf8)
    /\ [](\A c \in Cmds : FinishedCount(c) = IF sup[c] = "done" THEN 1 ELSE 0)
    /\ \A c \in Cmds :
          (sup[c] # "none" /\ (Stopped(c) \/ KillRxReady(c))) ~> (FinishedCount(c) = 1)
    /\ \A c \in Cmds, s \in Streams :
          (Stopped(c) /\ drainer[c][s] = "reading")
              ~> (pipe[c][s] = <<>> \/ drainer[c][s] = "stopped")

\* C26 witness: stdout gave one line and then a read error; both stderr lines
\* and Finished are on the channel, the stderr drainer is still there
C26_Witness ==
    \E c \in Cmds :
        /\ drainer[c]["stdout"] = "stopped" /\ drainer[c]["stderr"] = "reading"
        /\ Len(written[c]["stdout"]) = 2 /\ ~written[c]["stdout"][2].utf8
        /\ Len(StreamLines(c, "stdout")) = 1
        /\ Len(StreamLines(c, "stderr")) = 2
        /\ sup[c] = "done" /\ FinishedCount(c) = 1
        /\ sent[Len(sent)].kind = "NewLine" /\ sent[Len(sent)].src = "stderr"
\* C27: process_command_updates can always run to its end, whether or not
\* anything is queued and whatever the commands are doing; a call that takes
\* updates takes all that are queued, applies them in channel order and leaves
\* the channel's contents alone.
C27_DrainingNeverWaits ==
    /\ [](ENABLED process_command_updates)
    /\ [][received' # received =>
            /\ received' = Len(sent)
            /\ sent' = sent
            /\ command_log' = ApplyUpdates(command_log, Queued)]_vars

\* C27 witness: earlier updates were consumed, nothing is queued, and a command
\* that has emitted nothing is still running
C27_Witness ==
    /\ received > 0
    /\ received = Len(sent)
    /\ \E c \in Cmds : child[c] = "running" /\ sup[c] = "select" /\ \A i \in 1..Len(sent) : sent[i].cmd # c
    /\ ENABLED process_command_updates

\* the commands that have an update of the given kind among those taken by
\* the step
TakenFrom(kind) ==
    {sent[i].cmd : i \in {k \in (received + 1)..received' : sent[k].kind = kind}}

\* C28: a process_command_updates step changes the output of no log entry but
\* those of the commands whose Line updates it takes.
C28_LinesReachOwnEntry ==
    [][received' > received =>
          \A j \in 1..Len(command_log) :
              command_log[j].command \notin TakenFrom("NewLine")
                  => command_log'[j].output = command_log[j].output]_vars

\* C29: a process_command_updates step ends no log entry but those of the
\* commands whose Finished it takes.
C29_FinishedEndsOwnEntry ==
    [][received' > received =>
          \A j \in 1..Len(command_log) :
              command_log[j].command \notin TakenFrom("Finished")
                  => /\ command_log'[j].is_running = command_log[j].is_running
                     /\ command_log'[j].exit_code = command_log[j].exit_code]_vars

\* C30: once the process of a spawned command has ended, the log entry of that
\* command is eventually not running (the tasks and the main loop being
\* scheduled fairly).
C30_EveryEntryEnds ==
    \A c \in Cmds :
        (sup[c] # "none" /\ Stopped(c))
            ~> (\A j \in 1..Len(command_log) :
                    command_log[j].command = c => ~command_log[j].is_running)

\* no command is running: every process that was started is gone, its
\* supervisor is done and the App has consumed its Finished
NothingRunning ==
    /\ \A c \in Cmds : child[c] \in {"none", "failed", "exited", "killed"}
    /\ \A c \in Cmds : sup[c] \in {"none", "done"}
    /\ InFlight = {}

\* C31: a Ctrl-C pressed while no command is running (none ever spawned, or the
\* last one already finished) leaves the command log unchanged.
C31_IdleCtrlCLeavesLog ==
    [][(kills' = kills + 1 /\ NothingRunning) => command_log' = command_log]_vars


\* C32: a Ctrl-C pressed while the completion popup is active only closes the
\* popup (active = false, suggestions cleared): no cancellation signal is
\* sent, the cancellation slot, the running command and its tasks stay as they
\* are, and nothing is appended to the log.
C32_CtrlCInPopupOnlyClosesPopup ==
    [][(KeyCtrlC /\ completion_state.active)
        => /\ completion_state' = [completion_state EXCEPT !.active = FALSE,
                                                           !.suggestions = <<>>]
           /\ UNCHANGED <<kill_sender, kill_rx, cancelled, kills, result, child, sup, arm,
                          sent, command_log, input_buffer, cursor_position>>]_vars

\* the popup was opened, moved to its second suggestion and closed again over a
\* running command that nobody has cancelled
C32_Witness ==
    /\ ~completion_state.active
    /\ completion_state.suggestions = <<>>
    /\ completion_state.selected_index = 1
    /\ kill_sender # None
    /\ child[kill_sender] = "running" /\ kill_rx[kill_sender] = "open"
    /\ kills = 0
    /\ command_log[Len(command_log)].is_running
    /\ command_log[Len(command_log)].output = <<>>


\* Enter submits a line whose command word is one of the six built-ins
SubmitsBuiltin ==
    /\ ~completion_state.active
    /\ trim(input_buffer) # <<>>
    /\ ~MismatchedQuotes(trim(input_buffer))
    /\ ShlexWord(trim(input_buffer), FALSE)
            \in {CmdExit, CmdReload, CmdTheme, CmdAlias, CmdCd, CmdPwd}

\* Enter submits a line with a quote that is not closed
SubmitsMismatched == ~completion_state.active /\ MismatchedQuotes(trim(input_buffer))

\* C33: submitting a built-in (exit, :reload, theme, alias, cd, pwd) or a line
\* with mismatched quotes never calls spawn_command and leaves the
\* cancellation slot and the commands as they are; the new log entry, the last
\* one, holds the line and is not running when submit_command returns, and
\* for mismatched quotes its output ends with 'Error: Mismatched quotes.'.
C33_BuiltinsNeverSpawn ==
    [][((\E ok \in BOOLEAN, saved \in BOOLEAN : KeyEnter(ok, saved))
            /\ (SubmitsBuiltin \/ SubmitsMismatched))
        => /\ UNCHANGED <<spawned, kill_sender, kill_rx, child, sup, drainer, result>>
           /\ Len(command_log') > 0
           /\ command_log'[Len(command_log')].command = trim(input_buffer)
           /\ ~command_log'[Len(command_log')].is_running
           /\ SubmitsMismatched =>
                LET out == command_log'[Len(command_log')].output
                IN  out # <<>> /\ out[Len(out)] = MismatchMsg]_vars

\* a built-in was submitted, then a program that is still running, then a line
\* with mismatched quotes: both entries are finished and the slot still holds
\* the sender of the program
C33_Witness ==
    /\ kill_sender # None
    /\ child[kill_sender] = "running"
    /\ Len(command_log) = 4
    /\ command_log[2].command = CmdAlias /\ ~command_log[2].is_running
    /\ command_log[3].is_running
    /\ MismatchedQuotes(command_log[4].command)
    /\ ~command_log[4].is_running
    /\ command_log[4].output = <<MismatchMsg>>


\* C34: after any sequence of submissions, of empty and of non-empty lines,
\* the command log holds at most HISTORY_LIMIT entries.
C34_LogWithinLimit == Len(command_log) <= HISTORY_LIMIT


\* C35: after any sequence of key events (characters, Backspace, Left, Right,
\* history up and down, a completion applied, a line submitted) the cursor is
\* between 0 and the length of the input buffer, both included.
C35_CursorWithinBuffer ==
    0 <= cursor_position /\ cursor_position <= Len(input_buffer)

\* after a submission an entry of the history was loaded, edited, and the
\* cursor moved into the middle of the line
C35_Witness ==
    /\ Len(command_log) > 1
    /\ history_index # None
    /\ input_buffer # history[history_index + 1]
    /\ 0 < cursor_position /\ cursor_position < Len(input_buffer)


\* the popup shows a list and its selection is an entry of the list
PopupValid ==
    completion_state.active
        => /\ completion_state.suggestions # <<>>
           /\ 0 <= completion_state.selected_index
           /\ completion_state.selected_index < Len(completion_state.suggestions)

\* C36: whenever the completion popup is active the suggestion list is not
\* empty and selected_index is an index into it, after any sequence of key
\* events; and a Tab that finds no suggestion leaves the popup inactive.
C36_PopupHasSelection ==
    /\ []PopupValid
    /\ [][(KeyTab /\ ~completion_state.active
                /\ generate_suggestions(input_buffer) = <<>>)
            => ~completion_state'.active]_vars

\* the popup is open on the last of four suggestions for a line that was
\* submitted before and loaded again
C36_Witness ==
    /\ completion_state.active
    /\ Len(completion_state.suggestions) = 4
    /\ completion_state.selected_index = 3
    /\ Len(command_log) > 1


RECURSIVE NextTimes(_, _)
\* next_suggestion applied k times
NextTimes(cs, k) == IF k = 0 THEN cs ELSE NextTimes(next_suggestion(cs), k - 1)

\* C37: on a non-empty suggestion list next_suggestion and previous_suggestion
\* are inverse cyclic steps: each undoes the other, next from the last index
\* gives 0, previous from 0 gives the last index, and next applied as many
\* times as there are suggestions gives the starting index again.
C37_NextPreviousInverse ==
    LET cs == completion_state
        n == Len(cs.suggestions)
    IN  n > 0 =>
            /\ previous_suggestion(next_suggestion(cs)) = cs
            /\ next_suggestion(previous_suggestion(cs)) = cs
            /\ cs.selected_index = n - 1 => next_suggestion(cs).selected_index = 0
            /\ cs.selected_index = 0 => previous_suggestion(cs).selected_index = n - 1
            /\ NextTimes(cs, n) = cs

\* the selection is on the last of at least three suggestions, reached by a
\* step back from the first
C37_Witness ==
    /\ completion_state.active
    /\ Len(completion_state.suggestions) >= 3
    /\ completion_state.selected_index = Len(completion_state.suggestions) - 1
    /\ events = 1


\* history_index is None or an index into history
HistoryIndexValid ==
    history_index # None => (0 <= history_index /\ history_index < Len(history))

\* Up goes to navigate_history_up with the index on the oldest entry
UpFromOldest == KeyUp /\ ~completion_state.active /\ history_index = 0

\* Down goes to navigate_history_down with the index on the newest entry
DownFromNewest ==
    /\ KeyDown /\ ~completion_state.active
    /\ history_index # None /\ history_index = Len(history) - 1

\* C38 as claimed: history_index, when set, is an index into history after
\* any sequence of history navigation and submissions; history up from the
\* oldest entry stays on it, and history down from the newest entry clears the
\* index and the input buffer.
C38_HistoryNavigation ==
    /\ []HistoryIndexValid
    /\ [][UpFromOldest => history_index' = 0]_vars
    /\ [][DownFromNewest => (history_index' = None /\ input_buffer' = <<>>)]_vars

\* C38 as it holds: the index is always valid and up from the oldest entry
\* stays on it; down from the newest entry clears the index, the input buffer
\* and the cursor while the log is not scrolled (scroll_offset = 0), and while
\* it is scrolled neither key changes the index, the buffer or the cursor.
C38_HistoryNavigationUnscrolled ==
    /\ []HistoryIndexValid
    /\ [][UpFromOldest => history_index' = 0]_vars
    /\ [][(DownFromNewest /\ scroll_offset = 0)
            => (history_index' = None /\ input_buffer' = <<>> /\ cursor_position' = 0)]_vars
    /\ [][((KeyUp \/ KeyDown) /\ ~completion_state.active /\ scroll_offset > 0)
            => UNCHANGED <<history_index, input_buffer, cursor_position>>]_vars

\* the index went up through a history of three entries and one more step up
\* left it on the oldest one
C38_Witness ==
    /\ history_index = 0
    /\ Len(history) >= 3
    /\ input_buffer = history[1]
    /\ scroll_offset = 0
    /\ events >= Len(history) + 1


\* C39: after any sequence of scroll events, key presses and submissions
\* scroll_offset is at most the number of entries of the command log, also
\* after old entries were trimmed from the log; and submitting a line sets
\* scroll_offset to 0.
C39_ScrollWithinLog ==
    /\ [](0 <= scroll_offset /\ scroll_offset <= Len(command_log))
    /\ [][((\E ok \in BOOLEAN, saved \in BOOLEAN : KeyEnter(ok, saved))
                /\ ~completion_state.active)
            => scroll_offset' = 0]_vars

\* a submission into the full log dropped the welcome entry, and the view was
\* scrolled back afterwards
C39_Witness ==
    /\ Len(command_log) = HISTORY_LIMIT
    /\ command_log[1].command = CmdPwd
    /\ scroll_offset = 6

====
